---- MODULE Spec2Model ----
(***************************************************************************)
(* Model of chat-ui/server.py: an HTTP handler that serves static files,   *)
(* answers CORS preflights and proxies POST /api/chat to the Flowise       *)
(* prediction API.                                                         *)
(*                                                                         *)
(* Scope of the model.  Requests are well-formed HTTP/1.x requests, i.e.   *)
(* the requests for which the base handler calls a do_<METHOD> hook with   *)
(* self.path and self.headers set.  Text (str) is a sequence of Unicode    *)
(* code points, bytes is a sequence of integers 0..255.  The upstream is   *)
(* modelled by the outcome of the single urlopen call and of the read of   *)
(* its response.  One connection is handled at a time (socketserver's      *)
(* TCPServer).                                                             *)
(***************************************************************************)
EXTENDS Integers, Sequences, FiniteSets, TLC

\* ------------------------------------------------------------------ bounds
\* longest body the upstream returns
MaxBodyLen == 2
\* longest body a client sends
MaxReqLen == 2

\* ------------------------------------------------------------ text literals
\* "Service unavailable"
TxtServiceUnavailable == <<83, 101, 114, 118, 105, 99, 101, 32, 117, 110, 97, 118, 97, 105, 108, 97, 98, 108, 101>>
\* "Internal server error"
TxtInternalServerError == <<73, 110, 116, 101, 114, 110, 97, 108, 32, 115, 101, 114, 118, 101, 114, 32, 101, 114, 114, 111, 114>>
\* "HTTP Error "
TxtHttpErrorPrefix == <<72, 84, 84, 80, 32, 69, 114, 114, 111, 114, 32>>
\* ": "
TxtColonSpace == <<58, 32>>
\* ", "
TxtCommaSpace == <<44, 32>>
\* "<urlopen error "
TxtUrlopenPrefix == <<60, 117, 114, 108, 111, 112, 101, 110, 32, 101, 114, 114, 111, 114, 32>>
\* ">"
TxtUrlopenSuffix == <<62>>
\* "invalid literal for int() with base 10: "
TxtInvalidLiteral == <<105, 110, 118, 97, 108, 105, 100, 32, 108, 105, 116, 101, 114, 97, 108, 32, 102, 111, 114, 32, 105, 110, 116, 40, 41, 32, 119, 105, 116, 104, 32, 98, 97, 115, 101, 32, 49, 48, 58, 32>>
\* "int() argument must be a string, a bytes-like object or a real number, not 'NoneType'"
TxtIntNone == <<105, 110, 116, 40, 41, 32, 97, 114, 103, 117, 109, 101, 110, 116, 32, 109, 117, 115, 116, 32, 98, 101, 32, 97, 32, 115, 116, 114, 105, 110, 103, 44, 32, 97, 32, 98, 121, 116, 101, 115, 45, 108, 105, 107, 101, 32, 111, 98, 106, 101, 99, 116, 32, 111, 114, 32, 97, 32, 114, 101, 97, 108, 32, 110, 117, 109, 98, 101, 114, 44, 32, 110, 111, 116, 32, 39, 78, 111, 110, 101, 84, 121, 112, 101, 39>>
\* "error"
TxtError == <<101, 114, 114, 111, 114>>
\* "details"
TxtDetails == <<100, 101, 116, 97, 105, 108, 115>>
\* "[Errno 111] Connection refused"
TxtConnRefused == <<91, 69, 114, 114, 110, 111, 32, 49, 49, 49, 93, 32, 67, 111, 110, 110, 101, 99, 116, 105, 111, 110, 32, 114, 101, 102, 117, 115, 101, 100>>
\* "[Errno -2] Name or service not known"
TxtNameUnknown == <<91, 69, 114, 114, 110, 111, 32, 45, 50, 93, 32, 78, 97, 109, 101, 32, 111, 114, 32, 115, 101, 114, 118, 105, 99, 101, 32, 110, 111, 116, 32, 107, 110, 111, 119, 110>>
\* "timed out"
TxtTimedOut == <<116, 105, 109, 101, 100, 32, 111, 117, 116>>
\* "[Errno 32] Broken pipe"
TxtBrokenPipe == <<91, 69, 114, 114, 110, 111, 32, 51, 50, 93, 32, 66, 114, 111, 107, 101, 110, 32, 112, 105, 112, 101>>
\* "IncompleteRead(0 bytes read)"
TxtIncomplete == <<73, 110, 99, 111, 109, 112, 108, 101, 116, 101, 82, 101, 97, 100, 40, 48, 32, 98, 121, 116, 101, 115, 32, 114, 101, 97, 100, 41>>
\* "Too Many Requests"
TxtTooMany == <<84, 111, 111, 32, 77, 97, 110, 121, 32, 82, 101, 113, 117, 101, 115, 116, 115>>
\* "<p>Error code: "
TxtErrPagePrefix == <<60, 112, 62, 69, 114, 114, 111, 114, 32, 99, 111, 100, 101, 58, 32>>
\* "</p>"
TxtErrPageSuffix == <<60, 47, 112, 62>>

\* ------------------------------------------------------------ generic helpers
\* sequences over S of length at most n
SeqsUpTo(S, n) == UNION {[1..k -> S] : k \in 0..n}

\* the elements of a sequence
Range(s) == {s[i] : i \in 1..Len(s)}

\* the concatenation of a sequence of sequences, by halves
RECURSIVE Flatten(_)
Flatten(ss) ==
    IF Len(ss) = 0 THEN <<>>
    ELSE IF Len(ss) = 1 THEN ss[1]
    ELSE LET h == Len(ss) \div 2
         IN  Flatten(SubSeq(ss, 1, h)) \o Flatten(SubSeq(ss, h + 1, Len(ss)))

\* the first index from i on whose element satisfies P, Len(s) + 1 if none
FirstWhere(s, i, P(_)) ==
    IF i > Len(s) THEN Len(s) + 1
    ELSE CHOOSE j \in i..(Len(s) + 1) :
            /\ j = Len(s) + 1 \/ P(s[j])
            /\ \A k \in i..(j - 1) : ~P(s[k])

\* str(n) for a natural number: its decimal digits
RECURSIVE Dec(_)
Dec(n) == IF n < 10 THEN <<48 + n>> ELSE Dec(n \div 10) \o <<48 + (n % 10)>>

\* one lower-case hexadecimal digit
HexDigit(d) == IF d < 10 THEN 48 + d ELSE 87 + d

\* the four hexadecimal digits of a code point below 65536
Hex4(c) ==
    << HexDigit(c \div 4096), HexDigit((c \div 256) % 16),
       HexDigit((c \div 16) % 16), HexDigit(c % 16) >>

\* ------------------------------------------------- int(), repr(), str(e)
IsDigit(c) == c \in 48..57

IsSpace(c) == c \in {9, 10, 11, 12, 13, 32}

\* str.strip(): leading and trailing whitespace removed
RECURSIVE Strip(_)
Strip(s) ==
    IF s = <<>> THEN s
    ELSE IF IsSpace(Head(s)) THEN Strip(Tail(s))
    ELSE IF IsSpace(s[Len(s)]) THEN Strip(SubSeq(s, 1, Len(s) - 1))
    ELSE s

\* the digits of an int() literal: digits, single underscores between them
DigitsOk(s) ==
    /\ s /= <<>>
    /\ IsDigit(s[1]) /\ IsDigit(s[Len(s)])
    /\ \A i \in 1..Len(s) : IsDigit(s[i]) \/ s[i] = 95
    /\ \A i \in 1..(Len(s) - 1) : ~(s[i] = 95 /\ s[i + 1] = 95)

\* the literal without its sign
Unsigned(s) == IF s /= <<>> /\ Head(s) \in {43, 45} THEN Tail(s) ELSE s

\* int(text) returns (does not raise ValueError)
IntValid(t) == DigitsOk(Unsigned(Strip(t)))

RECURSIVE DigitsValue(_)
DigitsValue(s) ==
    IF s = <<>> THEN 0
    ELSE IF s[Len(s)] = 95 THEN DigitsValue(SubSeq(s, 1, Len(s) - 1))
    ELSE 10 * DigitsValue(SubSeq(s, 1, Len(s) - 1)) + (s[Len(s)] - 48)

\* the value of int(text), for a valid literal
IntValue(t) ==
    LET s == Strip(t)
    IN  IF Head(s) = 45 THEN 0 - DigitsValue(Unsigned(s))
        ELSE DigitsValue(Unsigned(s))

\* the characters of s as repr() writes them between quotes q
ReprBody(s, q) ==
    Flatten([i \in 1..Len(s) |->
               IF s[i] = q \/ s[i] = 92 THEN <<92, s[i]>> ELSE <<s[i]>>])

\* repr() of a str of printable ASCII: single quotes, double quotes when the
\* text holds a single quote and no double quote
Repr(s) ==
    LET q == IF 39 \in Range(s) /\ ~(34 \in Range(s)) THEN 34 ELSE 39
    IN  <<q>> \o ReprBody(s, q) \o <<q>>

\* A header value: absent (headers[...] is None) or a text
NoHeader == [present |-> FALSE, text |-> <<>>]

HeaderText(t) == [present |-> TRUE, text |-> t]

\* ----------------------------------------------------------- exceptions
\* An exception object.  cls is its class; code, msg and body are those of
\* an HTTPError; text is the reason of a URLError or the message of any
\* other exception.
NoExc == [cls |-> "none", code |-> 0, msg |-> <<>>, body |-> <<>>, text |-> <<>>]

HTTPError(code, msg, body) ==
    [cls |-> "HTTPError", code |-> code, msg |-> msg, body |-> body, text |-> <<>>]

URLError(reason) ==
    [cls |-> "URLError", code |-> 0, msg |-> <<>>, body |-> <<>>, text |-> reason]

OtherError(cls, text) ==
    [cls |-> cls, code |-> 0, msg |-> <<>>, body |-> <<>>, text |-> text]

\* the exception int(self.headers['Content-Length']) raises
IntError(h) ==
    IF h.present THEN OtherError("ValueError", TxtInvalidLiteral \o Repr(h.text))
    ELSE OtherError("TypeError", TxtIntNone)

\* isinstance(e, URLError): HTTPError is a subclass of URLError
IsURLError(e) == e.cls \in {"URLError", "HTTPError"}

\* str(e)
Str(e) ==
    CASE e.cls = "HTTPError" -> TxtHttpErrorPrefix \o Dec(e.code) \o TxtColonSpace \o e.msg
      [] e.cls = "URLError"  -> TxtUrlopenPrefix \o e.text \o TxtUrlopenSuffix
      [] OTHER               -> e.text

\* ----------------------------------------------- bytes <-> text, json.dumps
IsCont(b) == b \in 128..191

\* bytes.decode('utf-8', errors='ignore'): a byte that starts no valid
\* sequence is dropped and decoding resumes at the next byte.  One- and
\* two-byte sequences are decoded; the byte alphabet holds no lead byte of a
\* longer one.
RECURSIVE Utf8DecodeIgnore(_)
Utf8DecodeIgnore(b) ==
    IF b = <<>> THEN <<>>
    ELSE IF b[1] < 128 THEN <<b[1]>> \o Utf8DecodeIgnore(Tail(b))
    ELSE IF b[1] \in 194..223 /\ Len(b) >= 2 /\ IsCont(b[2])
         THEN <<(b[1] - 192) * 64 + (b[2] - 128)>> \o Utf8DecodeIgnore(SubSeq(b, 3, Len(b)))
    ELSE Utf8DecodeIgnore(Tail(b))

\* str.encode(): UTF-8, for code points below 2048
Utf8Encode(t) ==
    Flatten([i \in 1..Len(t) |->
               IF t[i] < 128 THEN <<t[i]>>
               ELSE <<192 + (t[i] \div 64), 128 + (t[i] % 64)>>])

\* json.dumps of one character (ensure_ascii): the two-character escapes,
\* \uXXXX for everything else outside ' '..'~'
JsonChar(c) ==
    CASE c = 34 -> <<92, 34>>
      [] c = 92 -> <<92, 92>>
      [] c = 10 -> <<92, 110>>
      [] c = 13 -> <<92, 114>>
      [] c = 9  -> <<92, 116>>
      [] c = 8  -> <<92, 98>>
      [] c = 12 -> <<92, 102>>
      [] OTHER  -> IF c \in 32..126 THEN <<c>> ELSE <<92, 117>> \o Hex4(c)

JsonEscape(t) == Flatten([i \in 1..Len(t) |-> JsonChar(t[i])])

\* a str put between quotes without escaping
JsonString_Raw(t) == <<34>> \o t \o <<34>>

\* json.dumps of a str
JsonString(t) == <<34>> \o JsonEscape(t) \o <<34>>

\* json.dumps({'error': err, 'details': det}).encode()
ErrorPayload(err, det) ==
    Utf8Encode(<<123>> \o JsonString(TxtError) \o TxtColonSpace \o JsonString(err)
               \o TxtCommaSpace \o JsonString(TxtDetails) \o TxtColonSpace
               \o JsonString(det) \o <<125>>)

\* ------------------------------------------------------------ configuration
FLOWISE_API == "https://app.c1elly.ai/api/v1/prediction/5f1fa57c-e6fd-463c-ac6e-c73fd5fb578b"

\* urlopen(req, timeout=60)
Timeout == 60

\* ------------------------------------------------------------------ inputs
Methods == {"OPTIONS", "POST", "GET", "HEAD", "PUT"}

Paths == {"/api/chat", "/api/other", "/api/chat/", "/api/chat?x=1", "/index.html"}

\* bytes of a client's body: 'a' and '{'
ReqBytes == {97, 123}

ReqBodies == SeqsUpTo(ReqBytes, MaxReqLen)

\* Content-Length as the client sends it: absent, "", "x", "\"", "0", "1",
\* "2", "-1"
ContentLengths ==
    {NoHeader} \cup
    {HeaderText(t) : t \in {<<>>, <<120>>, <<34>>, <<48>>, <<49>>, <<50>>, <<45, 49>>}}

Requests ==
    [method : Methods, path : Paths, cl : ContentLengths, body : ReqBodies]

\* bytes of an upstream body: '"', '1', and the two bytes of U+00E9
UpBytes == {34, 49, 195, 169}

UpBodies == SeqsUpTo(UpBytes, MaxBodyLen)

\* the error answers of the upstream that urlopen raises as HTTPError, each
\* a status code and its reason phrase: 429 "Too Many Requests", and 503 with
\* the phrase "N\"", which puts a quote into str(e)
ErrorAnswers ==
    {[code |-> 429, msg |-> TxtTooMany], [code |-> 503, msg |-> <<78, 34>>]}

\* what read() of an upstream response raises when the body does not arrive
ReadErrors ==
    {OtherError("TimeoutError", TxtTimedOut), OtherError("IncompleteRead", TxtIncomplete)}

\* The outcome of the upstream exchange: urlopen returns and read() returns
\* body; urlopen returns and read() raises exc; urlopen raises exc; urlopen
\* raises the HTTPError exc and the read() of its body raises.
NoOutcome == [kind |-> "none", body |-> <<>>, exc |-> NoExc]

Outcomes ==
    {[kind |-> "ok", body |-> b, exc |-> NoExc] : b \in UpBodies}
    \cup {[kind |-> "read_fails", body |-> <<>>, exc |-> e] :
            e \in ReadErrors}
    \cup {[kind |-> "raises", body |-> <<>>, exc |-> e] :
            e \in {HTTPError(a.code, a.msg, b) : a \in ErrorAnswers, b \in UpBodies}
                  \cup {URLError(TxtConnRefused), URLError(TxtNameUnknown),
                        URLError(TxtTimedOut)}
                  \cup {OtherError("TimeoutError", TxtTimedOut)}}
    \cup {[kind |-> "error_read_fails", body |-> <<>>,
           exc |-> HTTPError(a.code, a.msg, <<>>)] : a \in ErrorAnswers}

\* urlopen raised instead of returning a response
UrlopenRaised(o) == o.kind \in {"raises", "error_read_fails"}

\* ----------------------------------------------------------- response parts
\* A line of the headers buffer: the status line or a header
StatusLine(code) == [name |-> ":status", value |-> "", code |-> code]

HeaderLine(k, v) == [name |-> k, value |-> v, code |-> 0]

\* BaseHTTPRequestHandler.send_response: status line, Server and Date
send_response(buf, code) ==
    buf \o <<StatusLine(code), HeaderLine("Server", "SimpleHTTP/0.6"),
             HeaderLine("Date", "now")>>

send_header(buf, k, v) == Append(buf, HeaderLine(k, v))

\* end_headers without the Access-Control-Allow-Headers header
end_headers_NoAllowHeaders(buf) ==
    send_header(
      send_header(buf, "Access-Control-Allow-Origin", "*"),
      "Access-Control-Allow-Methods", "GET, POST, OPTIONS")

\* CORSRequestHandler.end_headers: the three CORS headers, then the base
\* class flushes the buffer (the flush is the write in the actions below)
end_headers(buf) ==
    send_header(
      send_header(
        send_header(buf, "Access-Control-Allow-Origin", "*"),
        "Access-Control-Allow-Methods", "GET, POST, OPTIONS"),
      "Access-Control-Allow-Headers", "Content-Type")

\* One write to the client socket: a flushed headers buffer or body bytes;
\* delivered is FALSE when the write raised
HeadWrite(buf, ok) == [kind |-> "head", lines |-> buf, data |-> <<>>, delivered |-> ok]

BodyWrite(d, ok) == [kind |-> "body", lines |-> <<>>, data |-> d, delivered |-> ok]

\* the page send_error writes: the line of the HTML template naming the code
ErrorPage(code) == Utf8Encode(TxtErrPagePrefix \o Dec(code) \o TxtErrPageSuffix)

\* send_error that writes the headers only
send_error_NoBody(buf, code, command) ==
    <<HeadWrite(end_headers(send_header(send_response(buf, code), "Connection", "close")),
                TRUE)>>

\* BaseHTTPRequestHandler.send_error: the writes it makes, the flush of the
\* headers first, then the page unless the request is a HEAD
send_error(buf, code, command) ==
    LET hasBody == code >= 200 /\ code \notin {204, 205, 304}
        b1 == send_header(send_response(buf, code), "Connection", "close")
        b2 == IF hasBody
              THEN send_header(send_header(b1, "Content-Type", "text/html;charset=utf-8"),
                               "Content-Length", "len(body)")
              ELSE b1
    IN  <<HeadWrite(end_headers(b2), TRUE)>>
        \o (IF command /= "HEAD" /\ hasBody THEN <<BodyWrite(ErrorPage(code), TRUE)>> ELSE <<>>)

\* the file the static handler finds: "<h1>"
FileBytes == <<60, 104, 49, 62>>

\* SimpleHTTPRequestHandler.send_head and copyfile for a file that exists
send_file(buf, command) ==
    LET b == send_header(send_header(send_header(send_response(buf, 200),
                 "Content-type", "text/html"), "Content-Length", "len(file)"),
                 "Last-Modified", "mtime")
    IN  <<HeadWrite(end_headers(b), TRUE)>>
        \o (IF command /= "HEAD" THEN <<BodyWrite(FileBytes, TRUE)>> ELSE <<>>)

\* a path test that tolerates a trailing slash
IsChatPath_Slash(path) == path \in {"/api/chat", "/api/chat/"}

\* do_POST's test of the path
IsChatPath(path) == path = "/api/chat"

\* the except clauses with URLError tested before its subclass HTTPError
Clause_URLErrorFirst(e) ==
    IF IsURLError(e) THEN "URLError"
    ELSE IF e.cls = "HTTPError" THEN "HTTPError"
    ELSE "Exception"

\* the except clause of proxy_to_flowise that catches e: the first that matches
Clause(e) ==
    IF e.cls = "HTTPError" THEN "HTTPError"
    ELSE IF IsURLError(e) THEN "URLError"
    ELSE "Exception"

\* ------------------------------------------------------------------- state
VARIABLES
    pc,              \* where the server is: "accept", a step of a handler, "done"
    request,         \* the request being handled
    client,          \* the client's end of the connection: "open", "halfclosed", "gone"
    calls,           \* the handler methods entered for this request, in order
    content_length,  \* proxy_to_flowise's local
    post_data,       \* proxy_to_flowise's local
    upstreamLog,     \* the requests passed to urlopen for this request
    upstream,        \* the outcome of the upstream exchange
    result,          \* proxy_to_flowise's local: the upstream body read
    exc,             \* the exception being handled in proxy_to_flowise
    headers_buffer,  \* the handler's _headers_buffer
    wire,            \* the writes made to the client socket, in order
    escaped          \* an exception left the handler method

vars == <<pc, request, client, calls, content_length, post_data, upstreamLog,
          upstream, result, exc, headers_buffer, wire, escaped>>

NoRequest == [method |-> "", path |-> "", cl |-> NoHeader, body |-> <<>>]

\* wfile.write succeeds while the client has not closed the connection
CanWrite == client /= "gone"

\* A handler makes the writes ws (head first).  With the client gone the
\* first write raises: it is recorded undelivered, flush_headers leaves the
\* buffer uncleared, and nothing after it is written.
Emit(ws) ==
    IF CanWrite
    THEN /\ wire' = wire \o ws
         /\ headers_buffer' = <<>>
    ELSE /\ wire' = Append(wire, [ws[1] EXCEPT !.delivered = FALSE])
         /\ headers_buffer' = ws[1].lines

Init ==
    /\ pc = "accept"
    /\ request = NoRequest
    /\ client = "open"
    /\ calls = <<>>
    /\ content_length = 0
    /\ post_data = <<>>
    /\ upstreamLog = <<>>
    /\ upstream = NoOutcome
    /\ result = <<>>
    /\ exc = NoExc
    /\ headers_buffer = <<>>
    /\ wire = <<>>
    /\ escaped = FALSE

\* ------------------------------------------------------------- the listener
\* a listener that accepts the next connection while a handler is running, as
\* a threading server would
Accept_Threaded(r) ==
    /\ pc /= "done"
    /\ pc' = "dispatch"
    /\ request' = r
    /\ UNCHANGED <<client, calls, content_length, post_data, upstreamLog, upstream,
                   result, exc, headers_buffer, wire, escaped>>

\* serve_forever accepts a connection and the base handler parses the request
Accept(r) ==
    /\ pc = "accept"
    /\ pc' = "dispatch"
    /\ request' = r
    /\ UNCHANGED <<client, calls, content_length, post_data, upstreamLog, upstream,
                   result, exc, headers_buffer, wire, escaped>>

\* a handler whose headers buffer outlives the request, as a class attribute
\* would
Finish_KeepsBuffer ==
    /\ pc = "done"
    /\ pc' = "accept"
    /\ request' = NoRequest
    /\ client' = "open"
    /\ calls' = <<>>
    /\ content_length' = 0
    /\ post_data' = <<>>
    /\ upstreamLog' = <<>>
    /\ upstream' = NoOutcome
    /\ result' = <<>>
    /\ exc' = NoExc
    /\ headers_buffer' = headers_buffer
    /\ wire' = <<>>
    /\ escaped' = FALSE

\* the handler returned (or raised into socketserver's handle_error): the
\* connection is shut down, the handler object discarded, and serve_forever
\* loops
Finish ==
    /\ pc = "done"
    /\ pc' = "accept"
    /\ request' = NoRequest
    /\ client' = "open"
    /\ calls' = <<>>
    /\ content_length' = 0
    /\ post_data' = <<>>
    /\ upstreamLog' = <<>>
    /\ upstream' = NoOutcome
    /\ result' = <<>>
    /\ exc' = NoExc
    /\ headers_buffer' = <<>>
    /\ wire' = <<>>
    /\ escaped' = FALSE

\* --------------------------------------------------------------- the client
Handling == pc \notin {"accept", "done"}

\* the client shuts down its sending side: the server reads end-of-file
ClientHalfClose ==
    /\ Handling
    /\ client = "open"
    /\ client' = "halfclosed"
    /\ UNCHANGED <<pc, request, calls, content_length, post_data, upstreamLog,
                   upstream, result, exc, headers_buffer, wire, escaped>>

\* the client closes the connection: writes to it raise
ClientClose ==
    /\ Handling
    /\ client /= "gone"
    /\ client' = "gone"
    /\ UNCHANGED <<pc, request, calls, content_length, post_data, upstreamLog,
                   upstream, result, exc, headers_buffer, wire, escaped>>

\* ------------------------------------------------- handlers outside the proxy
\* A handler that makes the writes ws and returns; a failed write raises out
\* of the handler method
Respond(name, ws) ==
    /\ Emit(ws)
    /\ calls' = Append(calls, name)
    /\ escaped' = ~CanWrite
    /\ pc' = "done"
    /\ UNCHANGED <<request, client, content_length, post_data, upstreamLog,
                   upstream, result, exc>>

\* a preflight answered 204
do_OPTIONS_204 ==
    /\ pc = "dispatch"
    /\ request.method = "OPTIONS"
    /\ Respond("do_OPTIONS", <<HeadWrite(end_headers(send_response(headers_buffer, 204)), TRUE)>>)

do_OPTIONS ==
    /\ pc = "dispatch"
    /\ request.method = "OPTIONS"
    /\ Respond("do_OPTIONS", <<HeadWrite(end_headers(send_response(headers_buffer, 200)), TRUE)>>)

do_POST ==
    /\ pc = "dispatch"
    /\ request.method = "POST"
    /\ IF IsChatPath(request.path)
       THEN /\ pc' = "parse_length"
            /\ calls' = calls \o <<"do_POST", "proxy_to_flowise">>
            /\ UNCHANGED <<request, client, content_length, post_data, upstreamLog,
                           upstream, result, exc, headers_buffer, wire, escaped>>
       ELSE Respond("do_POST", send_error(headers_buffer, 404, request.method))

\* a GET handler that sends the chat path to the proxy
do_GET_ProxiesChat ==
    /\ pc = "dispatch"
    /\ request.method \in {"GET", "HEAD"}
    /\ IF IsChatPath(request.path)
       THEN /\ pc' = "parse_length"
            /\ calls' = calls \o <<"do_GET", "proxy_to_flowise">>
            /\ UNCHANGED <<request, client, content_length, post_data, upstreamLog,
                           upstream, result, exc, headers_buffer, wire, escaped>>
       ELSE \E found \in BOOLEAN :
              Respond(IF request.method = "GET" THEN "do_GET" ELSE "do_HEAD",
                      IF found THEN send_file(headers_buffer, request.method)
                      ELSE send_error(headers_buffer, 404, request.method))

\* the static handler of the base class: the file exists or it does not
do_GET ==
    /\ pc = "dispatch"
    /\ request.method \in {"GET", "HEAD"}
    /\ \E found \in BOOLEAN :
         Respond(IF request.method = "GET" THEN "do_GET" ELSE "do_HEAD",
                 IF found THEN send_file(headers_buffer, request.method)
                 ELSE send_error(headers_buffer, 404, request.method))

\* a method without a do_ hook: the base handler answers 501
Unsupported ==
    /\ pc = "dispatch"
    /\ request.method \notin {"OPTIONS", "POST", "GET", "HEAD"}
    /\ Respond("handle_one_request", send_error(headers_buffer, 501, request.method))

\* ------------------------------------------------------------ proxy_to_flowise
\* an exception raised inside the try block: control goes to the except clauses
Raise(e) ==
    /\ exc' = e
    /\ pc' = "except"

\* a missing Content-Length read as 0: int(self.headers.get('Content-Length', 0))
ParseLength_DefaultZero ==
    /\ pc = "parse_length"
    /\ IF ~request.cl.present \/ IntValid(request.cl.text)
       THEN /\ content_length' = IF request.cl.present THEN IntValue(request.cl.text) ELSE 0
            /\ pc' = "read_body"
            /\ exc' = exc
       ELSE /\ Raise(IntError(request.cl))
            /\ content_length' = content_length
    /\ UNCHANGED <<request, client, calls, post_data, upstreamLog, upstream, result,
                   headers_buffer, wire, escaped>>

\* content_length = int(self.headers['Content-Length'])
ParseLength ==
    /\ pc = "parse_length"
    /\ IF request.cl.present /\ IntValid(request.cl.text)
       THEN /\ content_length' = IntValue(request.cl.text)
            /\ pc' = "read_body"
            /\ exc' = exc
       ELSE /\ Raise(IntError(request.cl))
            /\ content_length' = content_length
    /\ UNCHANGED <<request, client, calls, post_data, upstreamLog, upstream, result,
                   headers_buffer, wire, escaped>>

\* a read that returns all that has arrived, whatever the length asked for
ReadReturns_All(n, avail) == avail

\* the bytes rfile.read(n) returns: n >= 0 asks for n bytes, n < 0 for all
\* up to end-of-file
ReadReturns(n, avail) ==
    IF n >= 0 /\ Len(avail) >= n THEN SubSeq(avail, 1, n) ELSE avail

\* post_data = self.rfile.read(content_length): returns once the bytes asked
\* for have arrived, or at end-of-file with what has arrived; blocks otherwise
ReadBody ==
    /\ pc = "read_body"
    /\ \/ content_length >= 0 /\ Len(request.body) >= content_length
       \/ client /= "open"
    /\ post_data' = ReadReturns(content_length, request.body)
    /\ pc' = "urlopen"
    /\ UNCHANGED <<request, client, calls, content_length, upstreamLog, upstream,
                   result, exc, headers_buffer, wire, escaped>>

\* urllib.request.Request(FLOWISE_API, data=post_data, headers=..., method='POST')
UpstreamRequest(data) ==
    [url |-> FLOWISE_API, method |-> "POST", data |-> data,
     headers |-> <<HeaderLine("Content-Type", "application/json")>>,
     timeout |-> Timeout]

\* urlopen called again after a network failure
Urlopen_Retry ==
    /\ pc = "urlopen"
    /\ \E o \in Outcomes :
         /\ upstream' = o
         /\ upstreamLog' =
               IF UrlopenRaised(o) /\ o.exc.cls = "URLError"
               THEN upstreamLog \o <<UpstreamRequest(post_data), UpstreamRequest(post_data)>>
               ELSE Append(upstreamLog, UpstreamRequest(post_data))
         /\ IF UrlopenRaised(o)
            THEN Raise(o.exc)
            ELSE pc' = "read_response" /\ exc' = exc
    /\ UNCHANGED <<request, client, calls, content_length, post_data, result,
                   headers_buffer, wire, escaped>>

\* urllib.request.urlopen(req, timeout=60): one call, which returns the
\* response or raises
Urlopen ==
    /\ pc = "urlopen"
    /\ upstreamLog' = Append(upstreamLog, UpstreamRequest(post_data))
    /\ \E o \in Outcomes :
         /\ upstream' = o
         /\ IF UrlopenRaised(o)
            THEN Raise(o.exc)
            ELSE pc' = "read_response" /\ exc' = exc
    /\ UNCHANGED <<request, client, calls, content_length, post_data, result,
                   headers_buffer, wire, escaped>>

\* result = response.read()
ReadResponse ==
    /\ pc = "read_response"
    /\ IF upstream.kind = "ok"
       THEN /\ result' = upstream.body
            /\ pc' = "send_head"
            /\ exc' = exc
       ELSE /\ Raise(upstream.exc)
            /\ result' = result
    /\ UNCHANGED <<request, client, calls, content_length, post_data, upstreamLog,
                   upstream, headers_buffer, wire, escaped>>

\* the headers buffer of the success response
SuccessHead(buf) ==
    end_headers(send_header(send_response(buf, 200), "Content-Type", "application/json"))

\* send_response(200); send_header('Content-Type', ...); end_headers()
SendHead ==
    /\ pc = "send_head"
    /\ Emit(<<HeadWrite(SuccessHead(headers_buffer), TRUE)>>)
    /\ IF CanWrite
       THEN pc' = "write_result" /\ exc' = exc
       ELSE Raise(OtherError("BrokenPipeError", TxtBrokenPipe))
    /\ UNCHANGED <<request, client, calls, content_length, post_data, upstreamLog,
                   upstream, result, escaped>>

\* a relay that decodes the upstream body and encodes it again
WriteResult_Recoded ==
    /\ pc = "write_result"
    /\ wire' = Append(wire, BodyWrite(Utf8Encode(Utf8DecodeIgnore(result)), CanWrite))
    /\ IF CanWrite
       THEN pc' = "done" /\ exc' = exc
       ELSE Raise(OtherError("BrokenPipeError", TxtBrokenPipe))
    /\ UNCHANGED <<request, client, calls, content_length, post_data, upstreamLog,
                   upstream, result, headers_buffer, escaped>>

\* self.wfile.write(result)
WriteResult ==
    /\ pc = "write_result"
    /\ wire' = Append(wire, BodyWrite(result, CanWrite))
    /\ IF CanWrite
       THEN pc' = "done" /\ exc' = exc
       ELSE Raise(OtherError("BrokenPipeError", TxtBrokenPipe))
    /\ UNCHANGED <<request, client, calls, content_length, post_data, upstreamLog,
                   upstream, result, headers_buffer, escaped>>

\* the writes of an except clause: status, Content-Type, the error payload
ErrorResponse(buf, code, err, det) ==
    <<HeadWrite(end_headers(send_header(send_response(buf, code),
                                        "Content-Type", "application/json")), TRUE),
      BodyWrite(ErrorPayload(err, det), TRUE)>>

\* an except clause runs; a write that fails in it raises out of the handler
Handle(ws) ==
    /\ pc = "except"
    /\ Emit(ws)
    /\ escaped' = ~CanWrite
    /\ pc' = "done"
    /\ UNCHANGED <<request, client, calls, content_length, post_data, upstreamLog,
                   upstream, result, exc>>

\* except urllib.error.HTTPError as e: e.read() comes first, and when it
\* raises, what it raises leaves the handler: no clause of the same try
\* statement catches it
ExceptHTTPError ==
    /\ Clause(exc) = "HTTPError"
    /\ IF upstream.kind = "error_read_fails"
       THEN /\ pc = "except"
            /\ \E e \in ReadErrors : exc' = e
            /\ escaped' = TRUE
            /\ pc' = "done"
            /\ UNCHANGED <<request, client, calls, content_length, post_data,
                           upstreamLog, upstream, result, headers_buffer, wire>>
       ELSE Handle(ErrorResponse(headers_buffer, exc.code, Str(exc),
                                 Utf8DecodeIgnore(exc.body)))

\* an unreachable upstream answered 502
ExceptURLError_502 ==
    /\ Clause(exc) = "URLError"
    /\ Handle(ErrorResponse(headers_buffer, 502, TxtServiceUnavailable, Str(exc)))

\* except urllib.error.URLError as e
ExceptURLError ==
    /\ Clause(exc) = "URLError"
    /\ Handle(ErrorResponse(headers_buffer, 503, TxtServiceUnavailable, Str(exc)))

\* except Exception as e
ExceptException ==
    /\ Clause(exc) = "Exception"
    /\ Handle(ErrorResponse(headers_buffer, 500, TxtInternalServerError, Str(exc)))

\* ------------------------------------------------------------ specification
Next ==
    \/ \E r \in Requests : Accept(r)
    \/ Finish
    \/ ClientHalfClose
    \/ ClientClose
    \/ do_OPTIONS
    \/ do_POST
    \/ do_GET
    \/ Unsupported
    \/ ParseLength
    \/ ReadBody
    \/ Urlopen
    \/ ReadResponse
    \/ SendHead
    \/ WriteResult
    \/ ExceptHTTPError
    \/ ExceptURLError
    \/ ExceptException

Spec == Init /\ [][Next]_vars

\* the control positions of the server's one thread
Positions ==
    {"accept", "dispatch", "parse_length", "read_body", "urlopen", "read_response",
     "send_head", "write_result", "except", "done"}

\* The server's thread waits for a client: in accept() for a connection, or
\* in rfile.read() for body bytes that have not arrived on a connection that
\* the client keeps open.  No timeout is set on the client's socket.
Waiting ==
    \/ pc = "accept"
    \/ /\ pc = "read_body"
       /\ client = "open"
       /\ content_length < 0 \/ Len(request.body) < content_length

\* a step of the server's thread: it is not waiting and its position changes
ServerStep ==
    /\ ~Waiting
    /\ pc' \in Positions \ {pc}

\* The server's thread runs whenever it is not waiting for a client: a call
\* that can return does return (the upstream call within its timeout).
\* Nothing is assumed of the clients: they need not connect, send or close.
FairSpec == Init /\ [][Next]_vars /\ WF_pc(ServerStep)

\* ------------------------------------------------------------ type invariant
TypeOK ==
    /\ pc \in Positions
    /\ client \in {"open", "halfclosed", "gone"}
    /\ escaped \in BOOLEAN
    /\ Len(upstreamLog) <= 1

\* ------------------------------------------------ reading a body as JSON
\* What a client sees when it parses a body as JSON (RFC 8259).  An index of
\* 0 stands for "no parse".
At(b, i) == IF i \in 1..Len(b) THEN b[i] ELSE 0 - 1

IsHex(c) == c \in 48..57 \/ c \in 97..102 \/ c \in 65..70

HexValue(c) == IF c \in 48..57 THEN c - 48 ELSE IF c \in 97..102 THEN c - 87 ELSE c - 55

RECURSIVE SkipWs(_, _)
SkipWs(b, i) == IF At(b, i) \in {32, 9, 10, 13} THEN SkipWs(b, i + 1) ELSE i

RECURSIVE SkipDigits(_, _)
SkipDigits(b, i) == IF IsDigit(At(b, i)) THEN SkipDigits(b, i + 1) ELSE i

\* a byte that is not an ordinary character of a JSON string
StrSpecial(c) == c = 34 \/ c = 92 \/ c < 32 \/ c >= 128

\* the index after the closing quote of the string whose characters start
\* at i; the ordinary characters are passed over in one step
RECURSIVE StringEnd(_, _)
StringEnd(b, i) ==
    LET j == FirstWhere(b, i, StrSpecial)
        c == At(b, j)
    IN  IF c < 32 THEN 0
        ELSE IF c = 34 THEN j + 1
        ELSE IF c = 92
             THEN IF At(b, j + 1) \in {34, 92, 47, 98, 102, 110, 114, 116}
                  THEN StringEnd(b, j + 2)
                  ELSE IF At(b, j + 1) = 117 /\ \A k \in 2..5 : IsHex(At(b, j + k))
                       THEN StringEnd(b, j + 6)
                       ELSE 0
        ELSE IF c \in 194..223 /\ IsCont(At(b, j + 1)) THEN StringEnd(b, j + 2)
        ELSE 0

\* the index after the number that starts at i
NumberEnd(b, i) ==
    LET i1 == IF At(b, i) = 45 THEN i + 1 ELSE i
        i2 == IF At(b, i1) = 48 THEN i1 + 1
              ELSE IF At(b, i1) \in 49..57 THEN SkipDigits(b, i1) ELSE 0
        i3 == IF i2 /= 0 /\ At(b, i2) = 46
              THEN (IF IsDigit(At(b, i2 + 1)) THEN SkipDigits(b, i2 + 1) ELSE 0)
              ELSE i2
        i4 == IF i3 /= 0 /\ At(b, i3) \in {69, 101}
              THEN LET j == IF At(b, i3 + 1) \in {43, 45} THEN i3 + 2 ELSE i3 + 1
                   IN  IF IsDigit(At(b, j)) THEN SkipDigits(b, j) ELSE 0
              ELSE i3
    IN  i4

\* the index after the literal lit that starts at i
LiteralEnd(b, i, lit) ==
    IF \A k \in 1..Len(lit) : At(b, i + k - 1) = lit[k] THEN i + Len(lit) ELSE 0

RECURSIVE ValueEnd(_, _)
RECURSIVE MembersEnd(_, _)
RECURSIVE ElementsEnd(_, _)

\* the index after the JSON value that starts at i
ValueEnd(b, i) ==
    LET c == At(b, i)
    IN  CASE c = 34  -> StringEnd(b, i + 1)
          [] c = 123 -> (LET j == SkipWs(b, i + 1)
                         IN  IF At(b, j) = 125 THEN j + 1 ELSE MembersEnd(b, j))
          [] c = 91  -> (LET j == SkipWs(b, i + 1)
                         IN  IF At(b, j) = 93 THEN j + 1 ELSE ElementsEnd(b, j))
          [] c = 116 -> LiteralEnd(b, i, <<116, 114, 117, 101>>)
          [] c = 102 -> LiteralEnd(b, i, <<102, 97, 108, 115, 101>>)
          [] c = 110 -> LiteralEnd(b, i, <<110, 117, 108, 108>>)
          [] OTHER   -> IF c = 45 \/ IsDigit(c) THEN NumberEnd(b, i) ELSE 0

\* the index after the '}' of the object whose first member starts at i
MembersEnd(b, i) ==
    LET k == IF At(b, i) = 34 THEN StringEnd(b, i + 1) ELSE 0
        c == IF k = 0 THEN 0 ELSE SkipWs(b, k)
        v == IF c /= 0 /\ At(b, c) = 58 THEN ValueEnd(b, SkipWs(b, c + 1)) ELSE 0
        n == IF v = 0 THEN 0 ELSE SkipWs(b, v)
    IN  IF n = 0 THEN 0
        ELSE IF At(b, n) = 125 THEN n + 1
        ELSE IF At(b, n) = 44 THEN MembersEnd(b, SkipWs(b, n + 1))
        ELSE 0

\* the index after the ']' of the array whose first element starts at i
ElementsEnd(b, i) ==
    LET v == ValueEnd(b, i)
        n == IF v = 0 THEN 0 ELSE SkipWs(b, v)
    IN  IF n = 0 THEN 0
        ELSE IF At(b, n) = 93 THEN n + 1
        ELSE IF At(b, n) = 44 THEN ElementsEnd(b, SkipWs(b, n + 1))
        ELSE 0

\* b is one well-formed JSON text
IsJson(b) ==
    LET e == ValueEnd(b, SkipWs(b, 1))
    IN  e /= 0 /\ SkipWs(b, e) = Len(b) + 1

\* the text of a JSON string, given the bytes between its quotes
RECURSIVE Unescape(_)
Unescape(b) ==
    LET j == FirstWhere(b, 1, StrSpecial)
        plain == SubSeq(b, 1, j - 1)
    IN  IF j > Len(b) THEN plain
        ELSE IF b[j] = 92
             THEN IF b[j + 1] = 117
                  THEN plain
                       \o <<4096 * HexValue(b[j + 2]) + 256 * HexValue(b[j + 3])
                            + 16 * HexValue(b[j + 4]) + HexValue(b[j + 5])>>
                       \o Unescape(SubSeq(b, j + 6, Len(b)))
                  ELSE plain
                       \o <<CASE b[j + 1] = 98 -> 8 [] b[j + 1] = 102 -> 12
                              [] b[j + 1] = 110 -> 10 [] b[j + 1] = 114 -> 13
                              [] b[j + 1] = 116 -> 9 [] OTHER -> b[j + 1]>>
                       \o Unescape(SubSeq(b, j + 2, Len(b)))
        ELSE plain \o <<(b[j] - 192) * 64 + (b[j + 1] - 128)>>
             \o Unescape(SubSeq(b, j + 2, Len(b)))

\* the members <<key, value>> of a well-formed object whose first member
\* starts at i; a value that is not a string is given as <<0 - 1>>
RECURSIVE Members(_, _)
Members(b, i) ==
    LET k == StringEnd(b, i + 1)
        v == SkipWs(b, SkipWs(b, k) + 1)
        e == ValueEnd(b, v)
        n == SkipWs(b, e)
        key == Unescape(SubSeq(b, i + 1, k - 2))
        val == IF At(b, v) = 34 THEN Unescape(SubSeq(b, v + 1, e - 2)) ELSE <<0 - 1>>
    IN  <<<<key, val>>>> \o (IF At(b, n) = 44 THEN Members(b, SkipWs(b, n + 1)) ELSE <<>>)

\* b is a JSON object
IsJsonObject(b) == IsJson(b) /\ At(b, SkipWs(b, 1)) = 123

\* the members of the JSON object b
ObjectMembers(b) ==
    LET j == SkipWs(b, SkipWs(b, 1) + 1)
    IN  IF At(b, j) = 125 THEN <<>> ELSE Members(b, j)

\* b is a JSON object with exactly the members "error": err, "details": det
IsErrorObject(b, err, det) ==
    /\ IsJsonObject(b)
    /\ LET m == ObjectMembers(b)
       IN  /\ Len(m) = 2
           /\ {m[1][1], m[2][1]} = {TxtError, TxtDetails}
           /\ \A i \in 1..2 : m[i][1] = TxtError => m[i][2] = err
           /\ \A i \in 1..2 : m[i][1] = TxtDetails => m[i][2] = det

\* ------------------------------------------------------- reading the wire
HasHeader(w, k, v) == \E i \in 1..Len(w.lines) : w.lines[i] = HeaderLine(k, v)

HasCors(w) ==
    /\ HasHeader(w, "Access-Control-Allow-Origin", "*")
    /\ HasHeader(w, "Access-Control-Allow-Methods", "GET, POST, OPTIONS")
    /\ HasHeader(w, "Access-Control-Allow-Headers", "Content-Type")

\* the status of a header block: that of its first line
StatusOf(w) == w.lines[1].code

\* the body writes of the wire
BodyWrites == {i \in 1..Len(wire) : wire[i].kind = "body"}

\* the handler is finished with a request of this method
Done(method) == pc = "done" /\ request.method = method

\* the handler is finished with a POST to the chat endpoint
DoneChat == Done("POST") /\ request.path = "/api/chat"

\* ------------------------------------------------------------------ claims
\* C1: every header block the server writes, on every path (preflight, proxy
\* success, the proxy's error responses, the 404 of a POST elsewhere, the
\* static handler's responses), carries the three CORS headers, and every
\* request handled gets a header block, unless the read of an upstream error
\* body failed.
C1_CorsOnEveryResponse ==
    /\ \A i \in 1..Len(wire) : wire[i].kind = "head" => HasCors(wire[i])
    /\ (pc = "done" /\ upstream.kind /= "error_read_fails") =>
          Len(wire) >= 1 /\ wire[1].kind = "head"

\* C1 witness: a 503 of the proxy reached the client with the CORS headers
C1_Witness ==
    /\ DoneChat
    /\ upstream.exc.cls = "URLError"
    /\ wire[1].delivered
    /\ StatusOf(wire[1]) = 503
    /\ HasCors(wire[1])

\* C2: an OPTIONS request, whatever its path, is answered by one header
\* block of status 200 with the three CORS headers, and no body.
C2_Preflight ==
    Done("OPTIONS") =>
        /\ Len(wire) = 1
        /\ wire[1].kind = "head"
        /\ StatusOf(wire[1]) = 200
        /\ HasCors(wire[1])
        /\ BodyWrites = {}

\* C2 witness: a preflight on the chat path was answered
C2_Witness ==
    /\ Done("OPTIONS")
    /\ request.path = "/api/chat"
    /\ wire[1].delivered

\* C3: a POST to a path that is not exactly "/api/chat" is answered 404
\* without entering proxy_to_flowise, and proxy_to_flowise is entered only
\* for a POST to exactly "/api/chat".
C3_Routing ==
    /\ (Done("POST") /\ request.path /= "/api/chat") =>
          /\ StatusOf(wire[1]) = 404
          /\ "proxy_to_flowise" \notin Range(calls)
    /\ "proxy_to_flowise" \in Range(calls) =>
          request.method = "POST" /\ request.path = "/api/chat"
    /\ (pc \notin {"accept", "dispatch"} /\ request.method = "POST"
        /\ request.path = "/api/chat") => "proxy_to_flowise" \in Range(calls)

\* C3 witness: a POST to "/api/chat/" got its 404
C3_Witness ==
    /\ Done("POST")
    /\ request.path = "/api/chat/"
    /\ wire[1].delivered
    /\ StatusOf(wire[1]) = 404

\* C4 as claimed: the 404 of a POST to another path has no body.
C4_NoBody ==
    (Done("POST") /\ request.path /= "/api/chat") => BodyWrites = {}

\* C4 amended: the 404 of a POST to another path has a body: its header
\* block announces an HTML page (Content-Type and Content-Length) and, the
\* header block written, the error page is written after it.
C4_ErrorPageBody ==
    (Done("POST") /\ request.path /= "/api/chat") =>
        /\ StatusOf(wire[1]) = 404
        /\ HasHeader(wire[1], "Content-Type", "text/html;charset=utf-8")
        /\ HasHeader(wire[1], "Content-Length", "len(body)")
        /\ wire[1].delivered =>
              /\ Len(wire) = 2
              /\ wire[2].kind = "body"
              /\ wire[2].data /= <<>>
              /\ wire[2].data = ErrorPage(404)

\* C4 witness: the page of a 404 reached the client
C4_Witness ==
    /\ Done("POST")
    /\ request.path = "/api/other"
    /\ Len(wire) = 2
    /\ wire[2].delivered
    /\ Len(wire[2].data) > 0

\* the requests' Content-Length values that are missing or no integer:
\* absent, "", "x", "\""
BadLengths == {NoHeader, HeaderText(<<>>), HeaderText(<<120>>), HeaderText(<<34>>)}

\* the head of a response of the chat endpoint: this status, JSON content type
ChatHead(w, code) ==
    /\ w.kind = "head"
    /\ StatusOf(w) = code
    /\ HasHeader(w, "Content-Type", "application/json")

\* C5: when the upstream call succeeds, the response of POST /api/chat is
\* status 200 with Content-Type: application/json, and its body is the
\* upstream's body byte for byte, whatever that body is; with every write
\* delivered the response is exactly that header block and that body.
C5_SuccessRelay ==
    (DoneChat /\ upstream.kind = "ok") =>
        /\ Len(wire) >= 1
        /\ ChatHead(wire[1], 200)
        /\ \A i \in BodyWrites : wire[i].data = upstream.body
        /\ (\A i \in 1..Len(wire) : wire[i].delivered) =>
              /\ Len(wire) = 2
              /\ wire[2].kind = "body"

\* C5 witness: an upstream body that is neither JSON nor UTF-8 was relayed
C5_Witness ==
    /\ DoneChat
    /\ upstream.kind = "ok"
    /\ upstream.body = <<195, 34>>
    /\ Len(wire) = 2
    /\ wire[2].delivered

\* C6: when the upstream answers with an error status S and body B, the
\* response has status S and Content-Type: application/json, and its body is
\* the JSON object with 'error' = "HTTP Error S: <reason>" and 'details' = B
\* decoded as UTF-8 with the undecodable bytes dropped.
C6_HttpErrorPassthrough ==
    (DoneChat /\ upstream.kind = "raises" /\ upstream.exc.cls = "HTTPError") =>
        /\ ChatHead(wire[1], upstream.exc.code)
        /\ wire[1].delivered =>
              /\ Len(wire) = 2
              /\ wire[2].kind = "body"
              /\ IsErrorObject(wire[2].data,
                     TxtHttpErrorPrefix \o Dec(upstream.exc.code) \o TxtColonSpace
                         \o upstream.exc.msg,
                     Utf8DecodeIgnore(upstream.exc.body))

\* C6 witness: a 429 whose body holds an undecodable byte was passed on
C6_Witness ==
    /\ DoneChat
    /\ upstream.exc.cls = "HTTPError"
    /\ upstream.exc.code = 429
    /\ upstream.exc.body = <<195, 49>>
    /\ Len(wire) = 2
    /\ wire[2].delivered

\* C7: when the upstream cannot be reached (connection refused, DNS failure),
\* the response has status 503 and Content-Type: application/json, and its
\* body is the JSON object with 'error' = "Service unavailable" and
\* 'details' = "<urlopen error <reason>>", the string form of the failure.
C7_Unreachable ==
    (DoneChat /\ upstream.exc.cls = "URLError"
     /\ upstream.exc.text \in {TxtConnRefused, TxtNameUnknown}) =>
        /\ ChatHead(wire[1], 503)
        /\ wire[1].delivered =>
              /\ Len(wire) = 2
              /\ wire[2].kind = "body"
              /\ IsErrorObject(wire[2].data, TxtServiceUnavailable,
                     TxtUrlopenPrefix \o upstream.exc.text \o TxtUrlopenSuffix)

\* C7 witness: a DNS failure was answered
C7_Witness ==
    /\ DoneChat
    /\ upstream.exc = URLError(TxtNameUnknown)
    /\ Len(wire) = 2
    /\ wire[2].delivered

\* C8: when Content-Length is missing or is no integer, the response has
\* status 500 and Content-Type: application/json, and its body is the JSON
\* object with 'error' = "Internal server error" and 'details' = the string
\* form of the TypeError or ValueError that int() raised.
C8_FramingError ==
    (DoneChat /\ request.cl \in BadLengths) =>
        /\ ChatHead(wire[1], 500)
        /\ wire[1].delivered =>
              /\ Len(wire) = 2
              /\ wire[2].kind = "body"
              /\ IsErrorObject(wire[2].data, TxtInternalServerError,
                     IF request.cl.present
                     THEN TxtInvalidLiteral \o <<39>> \o request.cl.text \o <<39>>
                     ELSE TxtIntNone)

\* C8 witness: a Content-Length of one double quote was answered
C8_Witness ==
    /\ DoneChat
    /\ request.cl = HeaderText(<<34>>)
    /\ Len(wire) = 2
    /\ wire[2].delivered

\* C9 as claimed: every POST /api/chat causes exactly one upstream request.
C9_ExactlyOne ==
    DoneChat => Len(upstreamLog) = 1

\* C9 amended: a POST /api/chat causes at most one upstream request, never
\* a second one whatever the failure: exactly one once Content-Length has
\* parsed and the body has been read, and none when Content-Length is
\* missing or no integer.
C9_AtMostOne ==
    /\ Len(upstreamLog) <= 1
    /\ upstream.kind /= "none" => Len(upstreamLog) = 1
    /\ (DoneChat /\ request.cl \in BadLengths) => Len(upstreamLog) = 0
    /\ (DoneChat /\ request.cl \notin BadLengths) => Len(upstreamLog) = 1

\* C9 witness: the upstream was unreachable and was asked once
C9_Witness ==
    /\ DoneChat
    /\ upstream.exc.cls = "URLError"
    /\ Len(upstreamLog) = 1
    /\ wire[1].delivered

\* C10 as claimed: every body of a response of POST /api/chat is
\* well-formed JSON, on the success path too.
C10_AlwaysJson ==
    DoneChat => \A i \in BodyWrites : IsJson(wire[i].data)

\* b is a JSON object with exactly the keys 'error' and 'details', both strings
HasErrorKeys(b) ==
    /\ IsJsonObject(b)
    /\ LET m == ObjectMembers(b)
       IN  /\ Len(m) = 2
           /\ m[1][1] /= m[2][1]
           /\ {m[1][1], m[2][1]} = {TxtError, TxtDetails}
           /\ \A i \in 1..2 : m[i][2] /= <<0 - 1>>

\* C10 amended: on every failure path the body of the response of POST
\* /api/chat is well-formed JSON, an object with exactly the two keys
\* 'error' and 'details', also when the upstream content in 'details' is not
\* JSON; on the success path the body is the upstream's body as it came, so
\* it is well-formed JSON only when the upstream's body is.
C10_ErrorBodiesJson ==
    DoneChat =>
        /\ upstream.kind = "ok" =>
              \A i \in BodyWrites :
                 /\ wire[i].data = upstream.body
                 /\ IsJson(wire[i].data) <=> IsJson(upstream.body)
        /\ upstream.kind /= "ok" =>
              /\ \A i \in BodyWrites : HasErrorKeys(wire[i].data)
              /\ (Len(wire) >= 1 /\ wire[1].delivered) => BodyWrites /= {}

\* C10 witness: an upstream error body that is not JSON was wrapped
C10_Witness ==
    /\ DoneChat
    /\ upstream.exc.cls = "HTTPError"
    /\ upstream.exc.body = <<34>>
    /\ upstream.exc.msg = <<78, 34>>
    /\ Len(wire) = 2
    /\ wire[2].delivered
    /\ HasErrorKeys(wire[2].data)

\* a failure happened while the POST to the chat endpoint was handled
Failed == exc /= NoExc

\* C11: every failure while a POST /api/chat is handled (parsing
\* Content-Length, reading the request body, the upstream call, reading the
\* upstream's success or error body, writing the response) is caught inside
\* proxy_to_flowise and turned into a JSON error response: no exception
\* leaves the handler, and the handler has written the error response.
C11_NothingEscapes ==
    (DoneChat /\ Failed) =>
        /\ ~escaped
        /\ \E i \in BodyWrites : wire[i].delivered /\ HasErrorKeys(wire[i].data)

UpstreamTimedOut ==
    /\ upstream.kind \in {"raises", "read_fails"}
    /\ upstream.exc.cls \in {"URLError", "TimeoutError"}
    /\ upstream.exc.text = TxtTimedOut

\* C13: when the timeout of the upstream call expires, in whatever phase,
\* the response of POST /api/chat has status 503 and its body is the JSON
\* object whose 'error' is "Service unavailable"; it is never a 500.
C13_TimeoutIs503 ==
    (DoneChat /\ UpstreamTimedOut) =>
        /\ ChatHead(wire[1], 503)
        /\ \A i \in BodyWrites :
              /\ HasErrorKeys(wire[i].data)
              /\ \E k \in 1..2 :
                    ObjectMembers(wire[i].data)[k] = <<TxtError, TxtServiceUnavailable>>

\* the header blocks the handler has written or tried to write
HeadWrites == {i \in 1..Len(wire) : wire[i].kind = "head"}

\* the status lines of a header block
StatusLines(w) == {i \in 1..Len(w.lines) : w.lines[i].name = ":status"}

\* C14: for every request the handler emits one response: one header block
\* with one status line, followed by at most one body; a failure after the
\* success status and headers of POST /api/chat were sent never makes it emit
\* a second status line or a second header block on the connection.
C14_OneResponse ==
    /\ Cardinality(HeadWrites) <= 1
    /\ \A i \in HeadWrites : i = 1 /\ Cardinality(StatusLines(wire[i])) = 1
    /\ Cardinality(BodyWrites) <= 1
    /\ (pc = "done" /\ ~escaped) => HeadWrites = {1}

\* C15: the listener handles connections one after the other: a request is
\* taken up only while no request is being processed, and the request being
\* processed is given up only when its handler has finished with it; so at
\* most one request is in processing, and the next connection is accepted
\* only after the current one was read, proxied and answered.
C15_Sequential ==
    [][/\ (request' /= request /\ request' /= NoRequest) =>
              (pc = "accept" /\ request = NoRequest /\ pc' = "dispatch")
       /\ (request' /= request /\ request /= NoRequest) =>
              (pc = "done" /\ request' = NoRequest /\ pc' = "accept")
       /\ (pc' = "accept") = (request' = NoRequest)]_vars

\* C15 witness: the handler of a POST to the chat endpoint waits for the
\* rest of the request body, the client's connection still open
C15_Witness ==
    /\ pc = "read_body"
    /\ client = "open"
    /\ content_length > Len(request.body)

C17_AlwaysReturns == (pc /= "accept") ~> (pc = "accept")

\* the request in hand is a POST whose path is exactly "/api/chat"
IsChatPost == request.method = "POST" /\ request.path = "/api/chat"

\* C18: an upstream request is issued only while a POST whose path is exactly
\* "/api/chat" is handled: the handling of an OPTIONS request, of a GET of any
\* path, "/api/chat" too, and of a POST to another path never calls the
\* upstream, from the first step to the last.
C18_UpstreamOnlyForChat ==
    /\ (upstreamLog /= <<>> \/ upstream /= NoOutcome \/ pc \in {"urlopen", "read_response"})
          => IsChatPost
    /\ (request /= NoRequest /\ ~IsChatPost) =>
          /\ upstreamLog = <<>>
          /\ upstream = NoOutcome
          /\ "proxy_to_flowise" \notin Range(calls)

\* C18 witness: a GET of "/api/chat" was answered without an upstream call
C18_Witness ==
    /\ Done("GET")
    /\ request.path = "/api/chat"
    /\ upstreamLog = <<>>
    /\ Len(wire) >= 1
    /\ wire[1].delivered

====
